---- MODULE Spec2Model ----
(***************************************************************************)
(* Model of pop-upgrade's release resolution (src/release/check.rs) and    *)
(* of the recovery partition upgrade (src/recovery/mod.rs).                *)
(*                                                                         *)
(* Three specifications share the module:                                  *)
(*   SpecRelease  - next / next_ / current / release_str, one call per     *)
(*                  behaviour, against a catalog of build-existence        *)
(*                  answers;                                               *)
(*   SpecStatus   - BuildStatus::status_code as a pure function over every *)
(*                  BuildStatus value;                                     *)
(*   Spec         - recovery(): probe, fetch_iso and the ISO acquisition,  *)
(*                  one external call per step, with scope-exit drops.     *)
(***************************************************************************)
EXTENDS Integers, Naturals, Sequences, FiniteSets, TLC

VARIABLES
    \* ---- release/check.rs ----
    catalog,      \* Release::build_exists(v, "intel") for every release string v
    relPc,        \* "idle" | "returned" | "panicked"
    relCall,      \* the call made: operation and its inputs
    relOut,       \* what the call returned (or NoReturn when it panicked)
    queries,      \* the arguments release_check / build_exists was called with, in order
    \* ---- BuildStatus::status_code ----
    stIn,         \* a BuildStatus value
    stCode,       \* NoCode before the call, Code(status_code(stIn)) after it
    \* ---- BuildStatus: PartialEq and From<Result<u16, ApiError>> ----
    eqIn,         \* three BuildStatus values <<a, b, c>>
    eqOut,        \* what == gave for the pairs of eqIn
    cvIn,         \* a Result<u16, ApiError>
    cvOut,        \* BuildStatus::from(cvIn)
    \* ---- recovery/mod.rs ----
    args,         \* the parsed command line (ArgMatches)
    partUuid,     \* the filesystem UUID of the recovery partition
    userIso,      \* the file at PATH of from-file: "present", "absent", or "none" (no PATH)
    runs,         \* which run of the command this is, and what the run started from
    pc,           \* position of the run inside recovery / fetch_iso / from_release / from_remote
    trace,        \* the external calls made so far, in order, each with its outcome
    ret,          \* the value fetch_iso is returning while its locals are dropped
    returned,     \* what recovery() returned to its caller
    printed,      \* whether the success message was printed
    recovery_uuid, \* fetch_iso's local: the UUID findmnt_uuid gave
    isoTemp,      \* the temporary directory holding new.iso
    dl,           \* the downloaded file new.iso
    iso,          \* the path fetch_iso mounts: "none", "new.iso" or "user"
    mnt,          \* the mount point directory and the ISO mount on it
    rec,          \* the recovery partition's files
    efi           \* the files of /boot/efi/EFI/Recovery-<UUID>

relVars == <<catalog, relPc, relCall, relOut, queries>>
stVars == <<stIn, stCode>>
pureVars == <<eqIn, eqOut, cvIn, cvOut>>
recVars == <<args, partUuid, userIso, runs, pc, trace, ret, returned, printed, recovery_uuid,
             isoTemp, dl, iso, mnt, rec, efi>>

(***************************************************************************)
(* Bounds and program constants                                            *)
(***************************************************************************)
\* number of distinct inner causes (isahc::Error, ApiError, StatusCode payloads) told apart
MaxCause == 2
\* largest build number told apart when two BuildStatus values are compared
MaxBuild == 2
\* how many times in a row the command is run against the same partition and ISO
MaxRuns == 2
\* largest value of a u16 build number
U16Max == 65535
\* i16 is 16 bits wide
I16Bits == 16

Causes == 1..MaxCause

(***************************************************************************)
(* BuildStatus (check.rs:6-12)                                             *)
(***************************************************************************)
Blacklisted == [kind |-> "Blacklisted", n |-> 0]
Build(n) == [kind |-> "Build", n |-> n]
ConnectionIssue(c) == [kind |-> "ConnectionIssue", n |-> c]
InternalIssue(c) == [kind |-> "InternalIssue", n |-> c]
ServerStatus(c) == [kind |-> "ServerStatus", n |-> c]

\* `x as i16` for a u16 x: two's complement reinterpretation of the 16 bits
AsI16(x) == IF x >= 2^(I16Bits - 1) THEN x - 2^I16Bits ELSE x

is_ok(s) == s.kind = "Build"

status_code(s) ==
    CASE s.kind = "ConnectionIssue" -> -3
      [] s.kind = "ServerStatus" -> -2
      [] s.kind = "InternalIssue" -> -1
      [] s.kind = "Build" -> AsI16(s.n)
      [] s.kind = "Blacklisted" -> -4

(***************************************************************************)
(* Result<u16, ApiError> and its conversion (check.rs:34-43)               *)
(***************************************************************************)
ApiOk(n) == [ok |-> TRUE, err |-> "none", n |-> n]
ApiErr(e, c) == [ok |-> FALSE, err |-> e, n |-> c]

\* the conversion with the two error causes exchanged
FromResult_swapped(result) ==
    CASE ~result.ok /\ result.err = "Get" -> ServerStatus(result.n)
      [] ~result.ok /\ result.err = "Status" -> ConnectionIssue(result.n)
      [] ~result.ok -> InternalIssue(result.n)
      [] result.ok -> Build(result.n)

FromResult(result) ==
    CASE ~result.ok /\ result.err = "Get" -> ConnectionIssue(result.n)
      [] ~result.ok /\ result.err = "Status" -> ServerStatus(result.n)
      [] ~result.ok -> InternalIssue(result.n)
      [] result.ok -> Build(result.n)

(***************************************************************************)
(* The environment of release resolution                                   *)
(***************************************************************************)
\* release strings the catalog knows an answer for
ReleaseSeq == <<"18.04", "18.10", "19.10", "20.04", "20.10", "21.04", "21.10">>
ReleaseStrs == {ReleaseSeq[i] : i \in 1..Len(ReleaseSeq)}
ReleaseIndex(v) == CHOOSE i \in 1..Len(ReleaseSeq) : ReleaseSeq[i] = v

\* answers of the build-existence query: a build number or an ApiError
ApiResultSeq ==
    <<ApiOk(7), ApiErr("Get", 1), ApiOk(32768), ApiErr("Status", MaxCause),
      ApiErr("Json", 1), ApiOk(0), ApiErr("Get", MaxCause), ApiOk(U16Max)>>

\* catalogs: every release string gets an answer, neighbouring strings different ones
Catalogs ==
    { [v \in ReleaseStrs |-> ApiResultSeq[((ReleaseIndex(v) + k) % Len(ApiResultSeq)) + 1]] :
        k \in 0..(Len(ApiResultSeq) - 1) }

\* what Version::detect() can yield: a (major, minor) pair, or a VersionError
Version(major, minor) == [ok |-> TRUE, major |-> major, minor |-> minor]
DetectFailed == [ok |-> FALSE, major |-> 0, minor |-> 0]
Supported == {Version(18, 4), Version(19, 10), Version(20, 4), Version(20, 10), Version(21, 4)}
Versions == {Version(ma, mi) : ma \in {16, 18, 19, 20, 21, 22}, mi \in {4, 10}}
DetectOutcomes == Versions \cup {DetectFailed}

build_exists(v) == catalog[v]

\* the closure next() hands to next_ as release_check (check.rs:72)
release_check(build) == FromResult(build_exists(build))

(***************************************************************************)
(* release_str (check.rs:95-104)                                           *)
(***************************************************************************)
Returned(v) == [panicked |-> FALSE, value |-> v]
Panicked == [panicked |-> TRUE, value |-> "this version of pop-upgrade is not supported on this release"]

\* release_str with a fallback row instead of the panic
release_str_fallback(major, minor) ==
    CASE <<major, minor>> = <<18, 4>> -> Returned("18.04")
      [] <<major, minor>> = <<19, 10>> -> Returned("18.10")
      [] <<major, minor>> = <<20, 4>> -> Returned("20.04")
      [] <<major, minor>> = <<20, 10>> -> Returned("20.10")
      [] OTHER -> Returned("21.04")

release_str(major, minor) ==
    CASE <<major, minor>> = <<18, 4>> -> Returned("18.04")
      [] <<major, minor>> = <<19, 10>> -> Returned("18.10")
      [] <<major, minor>> = <<20, 4>> -> Returned("20.04")
      [] <<major, minor>> = <<20, 10>> -> Returned("20.10")
      [] <<major, minor>> = <<21, 4>> -> Returned("21.04")
      [] OTHER -> Panicked

(***************************************************************************)
(* next_ (check.rs:106-152): the ReleaseStatus, and the arguments it        *)
(* passed to release_check, in call order                                  *)
(***************************************************************************)
ReleaseStatus(build, current, is_lts, next) ==
    [current |-> current, next |-> next, build |-> build, is_lts |-> is_lts]

\* the query made for the current release instead of the next one
Checked_current(current, is_lts, next) ==
    [panicked |-> FALSE, calls |-> <<current>>,
     value |-> ReleaseStatus(release_check(current), current, is_lts, next)]

Checked(current, is_lts, next) ==
    [panicked |-> FALSE, calls |-> <<next>>,
     value |-> ReleaseStatus(release_check(next), current, is_lts, next)]

\* a blocked row that still asks the catalog
Unchecked_queried(current, is_lts, next) ==
    [panicked |-> FALSE, calls |-> <<next>>,
     value |-> ReleaseStatus(release_check(next), current, is_lts, next)]

Unchecked(current, is_lts, next) ==
    [panicked |-> FALSE, calls |-> << >>,
     value |-> ReleaseStatus(Blacklisted, current, is_lts, next)]

\* next_ with the development jump of 18.04 (check.rs:114) switched on
next_dev_jump(current, development) ==
    CASE <<current.major, current.minor>> = <<18, 4>> ->
            Checked("18.04", TRUE, IF development THEN "20.10" ELSE "20.04")
      [] <<current.major, current.minor>> = <<19, 10>> ->
            Checked("19.10", FALSE, "20.04")
      [] <<current.major, current.minor>> = <<20, 4>> ->
            Checked("20.04", TRUE, "20.10")
      [] <<current.major, current.minor>> = <<20, 10>> ->
            IF development
            THEN Checked("20.10", FALSE, "21.04")
            ELSE Unchecked("20.10", FALSE, "21.04")
      [] <<current.major, current.minor>> = <<21, 4>> ->
            Unchecked("21.04", FALSE, "21.10")
      [] OTHER ->
            [panicked |-> TRUE, calls |-> << >>, value |-> Panicked.value]

next_(current, development) ==
    CASE <<current.major, current.minor>> = <<18, 4>> ->
            Checked("18.04", TRUE, "20.04")
      [] <<current.major, current.minor>> = <<19, 10>> ->
            Checked("19.10", FALSE, "20.04")
      [] <<current.major, current.minor>> = <<20, 4>> ->
            Checked("20.04", TRUE, "20.10")
      [] <<current.major, current.minor>> = <<20, 10>> ->
            IF development
            THEN Checked("20.10", FALSE, "21.04")
            ELSE Unchecked("20.10", FALSE, "21.04")
      [] <<current.major, current.minor>> = <<21, 4>> ->
            Unchecked("21.04", FALSE, "21.10")
      [] OTHER ->
            [panicked |-> TRUE, calls |-> << >>, value |-> Panicked.value]

(***************************************************************************)
(* next (check.rs:70-74) and current (check.rs:76-93)                      *)
(***************************************************************************)
NoOverride == "None"
Overrides == {NoOverride, "20.04", "21.10"}

Outcome(o, calls, value) == [outcome |-> o, calls |-> calls, value |-> value]

next(development, detected) ==
    IF ~detected.ok
    THEN Outcome("Err", << >>, "VersionError")
    ELSE LET r == next_(detected, development)
         IN  Outcome(IF r.panicked THEN "panic" ELSE "Ok", r.calls, r.value)

Lookup(version) ==
    LET build == build_exists(version)
    IN  IF build.ok
        THEN Outcome("Ok", <<version>>, <<version, build.n>>)
        ELSE Outcome("Err", <<version>>, "failed to find build")

current(version, detected) ==
    IF version # NoOverride
    THEN Lookup(version)
    ELSE IF ~detected.ok
         THEN Outcome("Err", << >>, "cannot detect current version of Pop")
         ELSE LET str == release_str(detected.major, detected.minor)
              IN  IF str.panicked
                  THEN Outcome("panic", << >>, str.value)
                  ELSE Lookup(str.value)

(***************************************************************************)
(* SpecRelease: one call of next or current per behaviour                  *)
(***************************************************************************)
Call(op, development, version, detected) ==
    [op |-> op, development |-> development, version |-> version, detected |-> detected]
NoCall == Call("none", FALSE, NoOverride, DetectFailed)
NoOut == [outcome |-> "none", value |-> "none"]

Finish(call, r) ==
    /\ relPc' = IF r.outcome = "panic" THEN "panicked" ELSE "returned"
    /\ relCall' = call
    /\ relOut' = [outcome |-> r.outcome, value |-> r.value]
    /\ queries' = r.calls
    /\ UNCHANGED catalog

NextCall ==
    /\ relPc = "idle"
    /\ \E development \in BOOLEAN, detected \in DetectOutcomes :
          Finish(Call("next", development, NoOverride, detected), next(development, detected))
    /\ UNCHANGED <<stVars, pureVars, recVars>>

CurrentCall ==
    /\ relPc = "idle"
    /\ \E version \in Overrides, detected \in DetectOutcomes :
          Finish(Call("current", FALSE, version, detected), current(version, detected))
    /\ UNCHANGED <<stVars, pureVars, recVars>>

InitRelease ==
    /\ catalog \in Catalogs
    /\ relPc = "idle"
    /\ relCall = NoCall
    /\ relOut = NoOut
    /\ queries = << >>

ParkRelease ==
    /\ catalog = [v \in ReleaseStrs |-> ApiOk(0)]
    /\ relPc = "off"
    /\ relCall = NoCall
    /\ relOut = NoOut
    /\ queries = << >>

(***************************************************************************)
(* SpecStatus: status_code applied to a BuildStatus value                  *)
(***************************************************************************)
BuildStatuses ==
    {Blacklisted} \cup {Build(n) : n \in 0..U16Max}
      \cup {ConnectionIssue(c) : c \in Causes}
      \cup {InternalIssue(c) : c \in Causes}
      \cup {ServerStatus(c) : c \in Causes}

NoCode == [called |-> FALSE, code |-> 0]
Code(c) == [called |-> TRUE, code |-> c]

StatusCodeCall ==
    /\ stCode = NoCode
    /\ stCode' = Code(status_code(stIn))
    /\ UNCHANGED <<stIn, relVars, pureVars, recVars>>

InitStatus == stIn \in BuildStatuses /\ stCode = NoCode
ParkStatus == stIn = Blacklisted /\ stCode = Code(0)

(***************************************************************************)
(* impl PartialEq for BuildStatus (check.rs:45-56)                         *)
(***************************************************************************)
\* equality as #[derive(PartialEq)] would give it: inner causes compared too
eq_derived(self, other) == self = other

eq(self, other) ==
    CASE /\ self.kind = other.kind
         /\ self.kind \in {"Blacklisted", "ConnectionIssue", "InternalIssue", "ServerStatus"} -> TRUE
      [] self.kind = "Build" /\ other.kind = "Build" -> self.n = other.n
      [] OTHER -> FALSE

\* the values compared: every variant, with several build numbers and causes
EqValues ==
    {Blacklisted} \cup {Build(n) : n \in 0..MaxBuild}
      \cup {ConnectionIssue(c) : c \in Causes}
      \cup {InternalIssue(c) : c \in Causes}
      \cup {ServerStatus(c) : c \in Causes}

NoEq == [called |-> FALSE, aa |-> FALSE, ab |-> FALSE, ba |-> FALSE, bc |-> FALSE, ac |-> FALSE]

EqCall ==
    /\ ~eqOut.called
    /\ eqOut' = [called |-> TRUE,
                 aa |-> eq(eqIn[1], eqIn[1]),
                 ab |-> eq(eqIn[1], eqIn[2]),
                 ba |-> eq(eqIn[2], eqIn[1]),
                 bc |-> eq(eqIn[2], eqIn[3]),
                 ac |-> eq(eqIn[1], eqIn[3])]
    /\ UNCHANGED <<eqIn, cvIn, cvOut, relVars, stVars, recVars>>

(***************************************************************************)
(* BuildStatus::from applied to a Result<u16, ApiError>                    *)
(***************************************************************************)
\* ApiError: Get (transport), Status (non-success status) and the other variants
ApiErrors == {"Get", "Status", "Json", "BuildNaN"}
ApiResults ==
    {ApiOk(n) : n \in 0..U16Max} \cup {ApiErr(e, c) : e \in ApiErrors, c \in Causes}

NoStatus == [called |-> FALSE, value |-> Blacklisted]

FromCall ==
    /\ ~cvOut.called
    /\ cvOut' = [called |-> TRUE, value |-> FromResult(cvIn)]
    /\ UNCHANGED <<eqIn, eqOut, cvIn, relVars, stVars, recVars>>

InitEq == eqIn \in EqValues \X EqValues \X EqValues /\ eqOut = NoEq
InitFrom == cvIn \in ApiResults /\ cvOut = NoStatus
ParkPure ==
    /\ eqIn = <<Blacklisted, Blacklisted, Blacklisted>>
    /\ eqOut = [NoEq EXCEPT !.called = TRUE]
    /\ cvIn = ApiOk(0)
    /\ cvOut = [called |-> TRUE, value |-> Build(0)]
ParkEq == eqIn = <<Blacklisted, Blacklisted, Blacklisted>> /\ eqOut = [NoEq EXCEPT !.called = TRUE]
ParkFrom == cvIn = ApiOk(0) /\ cvOut = [called |-> TRUE, value |-> Build(0)]

(***************************************************************************)
(* recovery/mod.rs: errors, command line, files                            *)
(***************************************************************************)
\* RecResult<T>: Ok, or a RecoveryError kind (with the kind Download wraps)
RecOk == [ok |-> TRUE, kind |-> "Ok", inner |-> "none"]
Err(kind) == [ok |-> FALSE, kind |-> kind, inner |-> "none"]
Download(why) == [ok |-> FALSE, kind |-> "Download", inner |-> why.kind]
Probe(cause) == [ok |-> FALSE, kind |-> "Probe", inner |-> cause]
NotImplemented == [ok |-> FALSE, kind |-> "panic", inner |-> "default-boot is not implemented"]
Unwrap == [ok |-> FALSE, kind |-> "panic", inner |-> "unwrap on None"]
Running == [ok |-> FALSE, kind |-> "running", inner |-> "none"]

\* ArgMatches: the subcommand of recovery, the subcommand of upgrade and its options
NoArg == "None"
Args(command, source, version, arch, next_flag) ==
    [command |-> command, source |-> source, version |-> version, arch |-> arch,
     next |-> next_flag]
ArgMatches ==
    {Args("default-boot", "none", NoArg, NoArg, FALSE),
     Args("upgrade", "from-file", NoArg, NoArg, FALSE)}
      \cup {Args("upgrade", "from-release", v, a, n) :
              v \in {NoArg, "20.04"}, a \in {NoArg, "intel"}, n \in BOOLEAN}

Uuids == {"4A3B", "9F0E"}

\* the trees of the mounted ISO and the files told apart in each
MainTrees == {".disk", "dists", "pool"}
TreeFiles(t) ==
    IF t \in MainTrees
    THEN {"data", "stale"}
    ELSE {"initrd.gz", "vmlinuz.efi", "stale"}
IsoTree(t) == [f \in TreeFiles(t) |-> IF f = "stale" THEN "absent" ELSE "new"]
Image == [t \in MainTrees \cup {"casper"} |-> IsoTree(t)]

\* a recovery partition before the run: an older image, this image, a mixture
\* left by an interrupted run, or no trees at all
Priors == {"old", "new", "mixed", "empty"}
PriorTree(prior, t) ==
    CASE prior = "new" \/ (prior = "mixed" /\ t = ".disk") -> IsoTree(t)
      [] prior = "empty" -> [f \in TreeFiles(t) |-> "absent"]
      [] OTHER -> [f \in TreeFiles(t) |-> "old"]
PriorEfi(prior) ==
    [f \in {"initrd.gz", "vmlinuz.efi"} |->
        CASE prior = "new" -> "new" [] prior = "empty" -> "absent" [] OTHER -> "old"]

\* the recovery partition's root: the marker, an entry this program never names,
\* and the four trees it mirrors
Partition(uuid, prior) ==
    [conf |-> "recovery.conf",
     other |-> "present",
     trees |-> [t \in MainTrees \cup {"casper-" \o uuid} |-> PriorTree(prior, t)]]

\* the n-th run, the files it started from and whether the run before it succeeded
Started(n, r, e, after_ok) == [n |-> n, rec |-> r, efi |-> e, after_ok |-> after_ok]

Step(name, ok, note) == [step |-> name, ok |-> ok, note |-> note]
Did(name, ok) == trace' = Append(trace, Step(name, ok, ""))

NoFile == [exists |-> FALSE, content |-> "none", flushed |-> FALSE, cursor |-> "start",
           validated |-> FALSE]
NoMount == [dir |-> "none", state |-> "none", source |-> "none", flags |-> "none",
            unmounts |-> 0, rmdirs |-> 0]

envVars == <<args, partUuid, userIso>>
\* what no step of the run touches: its inputs, and the other calls' variables
frame == <<envVars, runs, relVars, stVars, pureVars>>
fsVars == <<rec, efi>>
dlVars == <<isoTemp, dl, iso>>

\* fetch_iso returns r: control goes to the drops of its locals
Exit(r) == ret' = r /\ pc' = "drop"
\* FailRemote with the error of from_remote passed on as it is
FailRemote_bare(why) == ret' = why /\ pc' = "from_remote_unwind"
\* from_remote returns Err(why): from_release wraps it in Download (mod.rs:167)
FailRemote(why) == ret' = Download(why) /\ pc' = "from_remote_unwind"

(***************************************************************************)
(* recovery (mod.rs:69-91)                                                 *)
(***************************************************************************)
\* Recovery with the default-boot arm falling through to the probe
Recovery_no_stub ==
    /\ pc = "recovery"
    /\ pc' = "probe"
    /\ UNCHANGED <<frame, trace, ret, returned, printed, recovery_uuid, dlVars, mnt, fsVars>>

Recovery ==
    /\ pc = "recovery"
    /\ IF args.command = "default-boot"
       THEN pc' = "done" /\ returned' = NotImplemented
       ELSE pc' = "probe" /\ UNCHANGED returned
    /\ UNCHANGED <<frame, trace, ret, printed, recovery_uuid, dlVars, mnt, fsVars>>

\* Disks::probe_for: a scan error, no qualifying partition, or the handler's returned
ProbeFor ==
    /\ pc = "probe"
    /\ \E outcome \in {"Other", "NotFound", "found"} :
          IF outcome = "found"
          THEN /\ Did("probe_for", TRUE)
               /\ pc' = "recovery_exists"
               /\ UNCHANGED returned
          ELSE /\ trace' = Append(trace, Step("probe_for", FALSE, outcome))
               /\ pc' = "done"
               /\ returned' = Probe(outcome)
    /\ UNCHANGED <<frame, ret, printed, recovery_uuid, dlVars, mnt, fsVars>>

RecoveryReturn ==
    /\ pc = "probe_return"
    /\ pc' = "done"
    /\ returned' = ret
    /\ printed' = ret.ok
    /\ UNCHANGED <<frame, trace, ret, recovery_uuid, dlVars, mnt, fsVars>>

(***************************************************************************)
(* fetch_iso (mod.rs:93-146)                                               *)
(***************************************************************************)
RecoveryPathExists ==
    /\ pc = "recovery_exists"
    /\ \E exists \in BOOLEAN :
          /\ Did("recovery_path.exists", exists)
          /\ IF exists THEN pc' = "efi_exists" /\ UNCHANGED ret
                       ELSE Exit(Err("RecoveryNotFound"))
    /\ UNCHANGED <<frame, returned, printed, recovery_uuid, dlVars, mnt, fsVars>>

\* EfiPathExists with the answer of exists() looked at but not acted on
EfiPathExists_unchecked ==
    /\ pc = "efi_exists"
    /\ \E exists \in BOOLEAN :
          /\ Did("efi_path.exists", exists)
          /\ pc' = "findmnt_uuid"
          /\ UNCHANGED ret
    /\ UNCHANGED <<frame, returned, printed, recovery_uuid, dlVars, mnt, fsVars>>

EfiPathExists ==
    /\ pc = "efi_exists"
    /\ \E exists \in BOOLEAN :
          /\ Did("efi_path.exists", exists)
          /\ IF exists THEN pc' = "findmnt_uuid" /\ UNCHANGED ret
                       ELSE Exit(Err("EfiNotFound"))
    /\ UNCHANGED <<frame, returned, printed, recovery_uuid, dlVars, mnt, fsVars>>

FindmntUuid ==
    /\ pc = "findmnt_uuid"
    /\ \E ok \in BOOLEAN :
          /\ Did("findmnt_uuid", ok)
          /\ IF ok
             THEN /\ recovery_uuid' = partUuid
                  /\ pc' = IF args.source = "from-release" THEN "detect_version" ELSE "from_file"
                  /\ UNCHANGED ret
             ELSE Exit(Err("Io")) /\ UNCHANGED recovery_uuid
    /\ UNCHANGED <<frame, returned, printed, dlVars, mnt, fsVars>>

casper == "casper-" \o recovery_uuid
recovery == "Recovery-" \o recovery_uuid

(***************************************************************************)
(* from_release (mod.rs:149-169)                                           *)
(***************************************************************************)
DetectVersion ==
    /\ pc = "detect_version"
    /\ IF args.version # NoArg
       THEN pc' = "detect_arch" /\ UNCHANGED <<trace, ret>>
       ELSE \E ok \in BOOLEAN :
              /\ Did("detect_version", ok)
              /\ IF ok THEN pc' = "detect_arch" /\ UNCHANGED ret
                       ELSE Exit(Err("ReleaseVersion"))
    /\ UNCHANGED <<frame, returned, printed, recovery_uuid, dlVars, mnt, fsVars>>

DetectArch ==
    /\ pc = "detect_arch"
    /\ IF args.arch # NoArg
       THEN pc' = "get_release" /\ UNCHANGED <<trace, ret>>
       ELSE \E ok \in BOOLEAN :
              /\ Did("detect_arch", ok)
              /\ IF ok THEN pc' = "get_release" /\ UNCHANGED ret
                       ELSE Exit(Err("ReleaseArch"))
    /\ UNCHANGED <<frame, returned, printed, recovery_uuid, dlVars, mnt, fsVars>>

\* the version asked for: VERSION if given, else the detected next or current one
GetRelease ==
    /\ pc = "get_release"
    /\ \E ok \in BOOLEAN :
          /\ trace' = Append(trace, Step("get_release", ok,
                          IF args.version # NoArg THEN args.version
                          ELSE IF args.next THEN "detected next" ELSE "detected current"))
          /\ IF ok THEN pc' = "dl_tempdir" /\ UNCHANGED ret
                   ELSE Exit(Err("ApiError"))
    /\ UNCHANGED <<frame, returned, printed, recovery_uuid, dlVars, mnt, fsVars>>

(***************************************************************************)
(* from_remote (mod.rs:185-216)                                            *)
(***************************************************************************)
DlTempdir ==
    /\ pc = "dl_tempdir"
    /\ \E ok \in BOOLEAN :
          /\ Did("tempdir(new.iso)", ok)
          /\ IF ok THEN isoTemp' = "local" /\ pc' = "dl_open" /\ UNCHANGED ret
                   ELSE FailRemote(Err("TempDir")) /\ UNCHANGED isoTemp
    /\ UNCHANGED <<frame, returned, printed, recovery_uuid, dl, iso, mnt, fsVars>>

DlOpen ==
    /\ pc = "dl_open"
    /\ \E ok \in BOOLEAN :
          /\ Did("open", ok)
          /\ IF ok THEN /\ dl' = [NoFile EXCEPT !.exists = TRUE]
                        /\ pc' = "dl_get"
                        /\ UNCHANGED ret
                   ELSE FailRemote(Err("Io")) /\ UNCHANGED dl
    /\ UNCHANGED <<frame, returned, printed, recovery_uuid, isoTemp, iso, mnt, fsVars>>

\* DlGet with the error of get() dropped instead of returned
DlGet_unchecked ==
    /\ pc = "dl_get"
    /\ \E ok \in BOOLEAN, content \in {"good", "corrupt"} :
          /\ Did("get", ok)
          /\ dl' = [dl EXCEPT !.content = IF ok THEN content ELSE "partial", !.cursor = "end"]
          /\ pc' = "dl_flush"
          /\ UNCHANGED ret
    /\ UNCHANGED <<frame, returned, printed, recovery_uuid, isoTemp, iso, mnt, fsVars>>

\* ParallelGetter::get: blocks until every worker finished; the bytes received may
\* or may not be the published image
DlGet ==
    /\ pc = "dl_get"
    /\ \E ok \in BOOLEAN, content \in {"good", "corrupt"} :
          /\ Did("get", ok)
          /\ IF ok THEN /\ dl' = [dl EXCEPT !.content = content, !.cursor = "end"]
                        /\ pc' = "dl_flush"
                        /\ UNCHANGED ret
                   ELSE /\ dl' = [dl EXCEPT !.content = "partial", !.cursor = "end"]
                        /\ FailRemote(Err("Fetch"))
    /\ UNCHANGED <<frame, returned, printed, recovery_uuid, isoTemp, iso, mnt, fsVars>>

DlFlush ==
    /\ pc = "dl_flush"
    /\ \E ok \in BOOLEAN :
          /\ Did("flush", ok)
          /\ IF ok THEN dl' = [dl EXCEPT !.flushed = TRUE] /\ pc' = "dl_seek" /\ UNCHANGED ret
                   ELSE FailRemote(Err("Io")) /\ UNCHANGED dl
    /\ UNCHANGED <<frame, returned, printed, recovery_uuid, isoTemp, iso, mnt, fsVars>>

DlSeek ==
    /\ pc = "dl_seek"
    /\ \E ok \in BOOLEAN :
          /\ Did("seek", ok)
          /\ IF ok THEN dl' = [dl EXCEPT !.cursor = "start"] /\ pc' = "dl_validate" /\ UNCHANGED ret
                   ELSE FailRemote(Err("Io")) /\ UNCHANGED dl
    /\ UNCHANGED <<frame, returned, printed, recovery_uuid, isoTemp, iso, mnt, fsVars>>

\* DlValidate with the TempDir left in from_remote's local, which is dropped on
\* return, instead of moved into the caller's temp_iso_dir
DlValidate_not_moved ==
    /\ pc = "dl_validate"
    /\ \E ok \in BOOLEAN :
          /\ ok => (dl.content = "good" /\ dl.cursor = "start")
          /\ Did("validate_checksum", ok)
          /\ IF ok THEN /\ dl' = NoFile
                        /\ isoTemp' = "removed"
                        /\ iso' = "new.iso"
                        /\ pc' = "mnt_tempdir"
                        /\ UNCHANGED ret
                   ELSE /\ FailRemote(Err("Checksum"))
                        /\ dl' = [dl EXCEPT !.cursor = "end"]
                        /\ UNCHANGED <<isoTemp, iso>>
    /\ UNCHANGED <<frame, returned, printed, recovery_uuid, mnt, fsVars>>

\* validate_checksum digests the file from its cursor to the end: the digest is the
\* expected one only for the whole published image. On success the TempDir moves
\* to the caller's temp_iso_dir and the path is returned (mod.rs:214-215).
DlValidate ==
    /\ pc = "dl_validate"
    /\ \E ok \in BOOLEAN :
          /\ ok => (dl.content = "good" /\ dl.cursor = "start")
          /\ Did("validate_checksum", ok)
          /\ IF ok THEN /\ dl' = [dl EXCEPT !.validated = TRUE, !.cursor = "end"]
                        /\ isoTemp' = "held"
                        /\ iso' = "new.iso"
                        /\ pc' = "mnt_tempdir"
                        /\ UNCHANGED ret
                   ELSE /\ FailRemote(Err("Checksum"))
                        /\ dl' = [dl EXCEPT !.cursor = "end"]
                        /\ UNCHANGED <<isoTemp, iso>>
    /\ UNCHANGED <<frame, returned, printed, recovery_uuid, mnt, fsVars>>

\* an error return of from_remote drops its locals: the file is closed and the
\* TempDir, if it was created, is removed with new.iso in it
FromRemoteUnwind ==
    /\ pc = "from_remote_unwind"
    /\ IF isoTemp = "local"
       THEN /\ isoTemp' = "removed"
            /\ dl' = NoFile
            /\ Did("remove(new.iso dir)", TRUE)
       ELSE UNCHANGED <<isoTemp, dl, trace>>
    /\ pc' = "drop"
    /\ UNCHANGED <<frame, ret, returned, printed, recovery_uuid, iso, mnt, fsVars>>

(***************************************************************************)
(* from_file (mod.rs:172-180)                                              *)
(***************************************************************************)
FromFile ==
    /\ pc = "from_file"
    /\ \E exists \in {userIso = "present"} :
          /\ Did("path.exists", exists)
          /\ IF exists THEN iso' = "user" /\ pc' = "mnt_tempdir" /\ UNCHANGED ret
                       ELSE Exit(Err("IsoNotFound")) /\ UNCHANGED iso
    /\ UNCHANGED <<frame, returned, printed, recovery_uuid, isoTemp, dl, mnt, fsVars>>

(***************************************************************************)
(* fetch_iso, continued: mount, mirrors, payload copies (mod.rs:115-145)   *)
(***************************************************************************)
MntTempdir ==
    /\ pc = "mnt_tempdir"
    /\ \E ok \in BOOLEAN :
          /\ Did("tempdir(mount)", ok)
          /\ IF ok THEN mnt' = [mnt EXCEPT !.dir = "exists"] /\ pc' = "mount" /\ UNCHANGED ret
                   ELSE Exit(Err("TempDir")) /\ UNCHANGED mnt
    /\ UNCHANGED <<frame, returned, printed, recovery_uuid, dlVars, fsVars>>

MountIso ==
    /\ pc = "mount"
    /\ \E ok \in BOOLEAN :
          /\ Did("mount", ok)
          /\ IF ok THEN /\ mnt' = [mnt EXCEPT !.state = "mounted", !.source = iso,
                                               !.flags = "RDONLY"]
                        /\ pc' = "recovery_str"
                        /\ UNCHANGED ret
                   ELSE Exit(Err("Io")) /\ UNCHANGED mnt
    /\ UNCHANGED <<frame, returned, printed, recovery_uuid, dlVars, fsVars>>

\* recovery_path.to_str().unwrap() (mod.rs:128) panics on a path that is not
\* UTF-8; the panic unwinds (Rust's default panic strategy) through the same drops
RecoveryStr ==
    /\ pc = "recovery_str"
    /\ \E utf8 \in BOOLEAN :
          /\ Did("recovery_path.to_str", utf8)
          /\ IF utf8 THEN pc' = "rsync_main" /\ UNCHANGED ret
                     ELSE Exit(Unwrap)
    /\ UNCHANGED <<frame, returned, printed, recovery_uuid, dlVars, mnt, fsVars>>

\* rsync -KLavc --inplace --delete: each pair <<s, d>> makes tree d of the
\* destination the image's tree s, file by file; `applied` are the files reached
\* (all of them when rsync succeeds)
Targets(trees, pairs) == UNION {{<<p[2], f>> : f \in DOMAIN trees[p[2]]} : p \in pairs}
\* rsync without --delete: a file the image does not hold stays in the destination
rsync_no_delete(trees, pairs, applied) ==
    [d \in DOMAIN trees |->
        IF \E p \in pairs : p[2] = d
        THEN LET s == (CHOOSE p \in pairs : p[2] = d)[1]
             IN  [f \in DOMAIN trees[d] |->
                    IF <<d, f>> \in applied /\ Image[s][f] # "absent"
                    THEN Image[s][f] ELSE trees[d][f]]
        ELSE trees[d]]
rsync(trees, pairs, applied) ==
    [d \in DOMAIN trees |->
        IF \E p \in pairs : p[2] = d
        THEN LET s == (CHOOSE p \in pairs : p[2] = d)[1]
             IN  [f \in DOMAIN trees[d] |->
                    IF <<d, f>> \in applied THEN Image[s][f] ELSE trees[d][f]]
        ELSE trees[d]]

Sync(name, pairs, next_pc) ==
    \E ok \in BOOLEAN, applied \in SUBSET Targets(rec.trees, pairs) :
        /\ ok => applied = Targets(rec.trees, pairs)
        /\ Did(name, ok)
        /\ rec' = [rec EXCEPT !.trees = rsync(rec.trees, pairs, applied)]
        /\ IF ok THEN pc' = next_pc /\ UNCHANGED ret
                 ELSE Exit(Err("Io"))

\* RsyncMain with the error of the first mirror dropped instead of returned
RsyncMain_unchecked ==
    /\ pc = "rsync_main"
    /\ \E ok \in BOOLEAN, applied \in SUBSET Targets(rec.trees, {<<t, t>> : t \in MainTrees}) :
          /\ ok => applied = Targets(rec.trees, {<<t, t>> : t \in MainTrees})
          /\ Did("rsync(.disk dists pool)", ok)
          /\ rec' = [rec EXCEPT !.trees = rsync(rec.trees, {<<t, t>> : t \in MainTrees}, applied)]
          /\ pc' = "rsync_casper"
          /\ UNCHANGED ret
    /\ UNCHANGED <<frame, returned, printed, recovery_uuid, dlVars, mnt, efi>>

RsyncMain ==
    /\ pc = "rsync_main"
    /\ Sync("rsync(.disk dists pool)", {<<t, t>> : t \in MainTrees}, "rsync_casper")
    /\ UNCHANGED <<frame, returned, printed, recovery_uuid, dlVars, mnt, efi>>

\* RsyncCasper with the recovery root itself as the destination: --delete then
\* removes every root entry that casper/ does not hold
RsyncCasper_onto_root ==
    /\ pc = "rsync_casper"
    /\ \E ok \in BOOLEAN :
          /\ Did("rsync(casper)", ok)
          /\ rec' = [conf |-> "absent",
                     other |-> "absent",
                     trees |-> [t \in DOMAIN rec.trees |->
                                  IF t = casper THEN rec.trees[t]
                                  ELSE [f \in DOMAIN rec.trees[t] |-> "absent"]]]
          /\ IF ok THEN pc' = "cp_initrd" /\ UNCHANGED ret
                   ELSE Exit(Err("Io"))
    /\ UNCHANGED <<frame, returned, printed, recovery_uuid, dlVars, mnt, efi>>

\* RsyncCasper with the error of the second mirror dropped instead of returned
RsyncCasper_unchecked ==
    /\ pc = "rsync_casper"
    /\ \E ok \in BOOLEAN, applied \in SUBSET Targets(rec.trees, {<<"casper", casper>>}) :
          /\ ok => applied = Targets(rec.trees, {<<"casper", casper>>})
          /\ Did("rsync(casper)", ok)
          /\ rec' = [rec EXCEPT !.trees = rsync(rec.trees, {<<"casper", casper>>}, applied)]
          /\ pc' = "cp_initrd"
          /\ UNCHANGED ret
    /\ UNCHANGED <<frame, returned, printed, recovery_uuid, dlVars, mnt, efi>>

RsyncCasper ==
    /\ pc = "rsync_casper"
    /\ Sync("rsync(casper)", {<<"casper", casper>>}, "cp_initrd")
    /\ UNCHANGED <<frame, returned, printed, recovery_uuid, dlVars, mnt, efi>>

\* misc::cp(casper-<UUID>/<file>, /boot/efi/EFI/Recovery-<UUID>/<file>)
Cp(name, file, next_pc, done) ==
    LET source == rec.trees[casper][file]
    IN  \E ok \in BOOLEAN, written \in BOOLEAN :
          /\ ok => (source # "absent" /\ written)
          /\ written => source # "absent"
          /\ Did(name, ok)
          /\ efi' = IF ~written THEN efi
                    ELSE [efi EXCEPT ![file] = IF ok THEN source ELSE "partial"]
          /\ IF ok THEN IF done THEN Exit(RecOk) ELSE pc' = next_pc /\ UNCHANGED ret
                   ELSE Exit(Err("Io"))

CpInitrd ==
    /\ pc = "cp_initrd"
    /\ Cp("cp(initrd.gz)", "initrd.gz", "cp_vmlinuz", FALSE)
    /\ UNCHANGED <<frame, returned, printed, recovery_uuid, dlVars, mnt, rec>>

CpVmlinuz ==
    /\ pc = "cp_vmlinuz"
    /\ Cp("cp(vmlinuz.efi)", "vmlinuz.efi", "drop", TRUE)
    /\ UNCHANGED <<frame, returned, printed, recovery_uuid, dlVars, mnt, rec>>

(***************************************************************************)
(* fetch_iso's scope exit: locals are dropped in reverse order of          *)
(* declaration: _iso_mount (116), tempdir (115), temp_iso_dir (108)        *)
(***************************************************************************)
\* locals dropped in the order of their declaration
NextDrop_declaration_order ==
    CASE isoTemp = "held" -> "temp_iso_dir"
      [] isoTemp # "held" /\ mnt.dir = "exists" -> "tempdir"
      [] isoTemp # "held" /\ mnt.dir # "exists" /\ mnt.state = "mounted" -> "_iso_mount"
      [] OTHER -> "none"

NextDrop ==
    CASE mnt.state = "mounted" -> "_iso_mount"
      [] mnt.state # "mounted" /\ mnt.dir = "exists" -> "tempdir"
      [] mnt.state # "mounted" /\ mnt.dir # "exists" /\ isoTemp = "held" -> "temp_iso_dir"
      [] OTHER -> "none"

DropIsoMount ==
    /\ pc = "drop"
    /\ NextDrop = "_iso_mount"
    /\ mnt' = [mnt EXCEPT !.state = "unmounted", !.unmounts = @ + 1]
    /\ Did("unmount", TRUE)
    /\ UNCHANGED <<frame, pc, ret, returned, printed, recovery_uuid, dlVars, fsVars>>

DropTempdir ==
    /\ pc = "drop"
    /\ NextDrop = "tempdir"
    /\ mnt' = [mnt EXCEPT !.dir = "removed", !.rmdirs = @ + 1]
    /\ Did("remove(mount dir)", TRUE)
    /\ UNCHANGED <<frame, pc, ret, returned, printed, recovery_uuid, dlVars, fsVars>>

DropTempIsoDir ==
    /\ pc = "drop"
    /\ NextDrop = "temp_iso_dir"
    /\ isoTemp' = "removed"
    /\ dl' = NoFile
    /\ Did("remove(new.iso dir)", TRUE)
    /\ UNCHANGED <<frame, pc, ret, returned, printed, recovery_uuid, iso, mnt, fsVars>>

\* fetch_iso has returned: probe_for hands its value back to recovery
FetchIsoReturn ==
    /\ pc = "drop"
    /\ NextDrop = "none"
    /\ pc' = "probe_return"
    /\ UNCHANGED <<frame, trace, ret, returned, printed, recovery_uuid, dlVars, mnt, fsVars>>

\* the command is run again, with the same arguments, on what the last run left
Rerun ==
    /\ pc = "done"
    /\ args.command = "upgrade"
    /\ runs.n < MaxRuns
    /\ runs' = Started(runs.n + 1, rec, efi, returned.ok)
    /\ pc' = "recovery"
    /\ trace' = << >>
    /\ ret' = Running
    /\ returned' = Running
    /\ printed' = FALSE
    /\ recovery_uuid' = ""
    /\ isoTemp' = "none"
    /\ dl' = NoFile
    /\ iso' = "none"
    /\ mnt' = NoMount
    /\ UNCHANGED <<envVars, relVars, stVars, pureVars, fsVars>>

(***************************************************************************)
(* Spec: runs of recovery()                                                *)
(***************************************************************************)
InitRecovery ==
    /\ args \in ArgMatches
    /\ partUuid \in Uuids
    /\ pc = "recovery"
    /\ trace = << >>
    /\ ret = Running
    /\ returned = Running
    /\ printed = FALSE
    /\ recovery_uuid = ""
    /\ isoTemp = "none"
    /\ dl = NoFile
    /\ iso = "none"
    /\ mnt = NoMount
    /\ userIso \in IF args.source = "from-file" THEN {"present", "absent"} ELSE {"none"}
    /\ \E prior \in Priors :
          /\ rec = Partition(partUuid, prior)
          /\ efi = PriorEfi(prior)
          /\ runs = Started(1, Partition(partUuid, prior), PriorEfi(prior), FALSE)

ParkRecovery ==
    /\ args = Args("default-boot", "none", NoArg, NoArg, FALSE)
    /\ partUuid = "4A3B"
    /\ pc = "off"
    /\ trace = << >>
    /\ ret = Running
    /\ returned = Running
    /\ printed = FALSE
    /\ recovery_uuid = ""
    /\ isoTemp = "none"
    /\ dl = NoFile
    /\ iso = "none"
    /\ mnt = NoMount
    /\ userIso = "none"
    /\ rec = Partition("4A3B", "old")
    /\ efi = PriorEfi("old")
    /\ runs = Started(1, Partition("4A3B", "old"), PriorEfi("old"), FALSE)

(***************************************************************************)
(* Specifications                                                          *)
(***************************************************************************)
vars == <<relVars, stVars, pureVars, recVars>>

ReleaseInit == InitRelease /\ ParkStatus /\ ParkPure /\ ParkRecovery
ReleaseNext == NextCall \/ CurrentCall
SpecRelease == ReleaseInit /\ [][ReleaseNext]_vars

StatusInit == InitStatus /\ ParkRelease /\ ParkPure /\ ParkRecovery
StatusNext == StatusCodeCall
SpecStatus == StatusInit /\ [][StatusNext]_vars

EqInit == InitEq /\ ParkFrom /\ ParkRelease /\ ParkStatus /\ ParkRecovery
EqNext == EqCall
SpecEq == EqInit /\ [][EqNext]_vars

FromInit == InitFrom /\ ParkEq /\ ParkRelease /\ ParkStatus /\ ParkRecovery
FromNext == FromCall
SpecFrom == FromInit /\ [][FromNext]_vars

Init == InitRecovery /\ ParkRelease /\ ParkStatus /\ ParkPure
Next ==
    \/ Recovery \/ ProbeFor \/ RecoveryReturn
    \/ RecoveryPathExists \/ EfiPathExists \/ FindmntUuid
    \/ DetectVersion \/ DetectArch \/ GetRelease
    \/ DlTempdir \/ DlOpen \/ DlGet \/ DlFlush \/ DlSeek \/ DlValidate \/ FromRemoteUnwind
    \/ FromFile
    \/ MntTempdir \/ MountIso \/ RecoveryStr \/ RsyncMain \/ RsyncCasper \/ CpInitrd \/ CpVmlinuz
    \/ DropIsoMount \/ DropTempdir \/ DropTempIsoDir \/ FetchIsoReturn
    \/ Rerun
Spec == Init /\ [][Next]_vars

(***************************************************************************)
(* Claims about release resolution                                        *)
(***************************************************************************)
\* the documented transition table: current, next, is_lts, and whether the build is queried
Row(cur, nxt, lts) == [current |-> cur, next |-> nxt, is_lts |-> lts]
Documented(v) ==
    CASE v = Version(18, 4) -> Row("18.04", "20.04", TRUE)
      [] v = Version(19, 10) -> Row("19.10", "20.04", FALSE)
      [] v = Version(20, 4) -> Row("20.04", "20.10", TRUE)
      [] v = Version(20, 10) -> Row("20.10", "21.04", FALSE)
      [] v = Version(21, 4) -> Row("21.04", "21.10", FALSE)
QueryDocumented(v, development) ==
    \/ v \in {Version(18, 4), Version(19, 10), Version(20, 4)}
    \/ v = Version(20, 10) /\ development

NextDone == relPc # "idle" /\ relCall.op = "next"
CurrentDone == relPc # "idle" /\ relCall.op = "current"

\* C1: for each of the five supported versions and either development flag, next
\* returns a ReleaseStatus whose current, next and is_lts are the documented row.
C1_NextTable ==
    (NextDone /\ relCall.detected \in Supported) =>
        /\ relOut.outcome = "Ok"
        /\ relOut.value.current = Documented(relCall.detected).current
        /\ relOut.value.next = Documented(relCall.detected).next
        /\ relOut.value.is_lts = Documented(relCall.detected).is_lts

C1_Witness ==
    /\ NextDone
    /\ relCall.detected = Version(18, 4)
    /\ relCall.development
    /\ relOut.outcome = "Ok"
    /\ relOut.value.next = "20.04"

\* C2: blocked transitions (20.10 without the development flag, 21.04 with either
\* flag) return build = Blacklisted and make no build-existence query; 20.10 with
\* the development flag does make the query.
C2_BlockedNoQuery ==
    NextDone =>
        /\ ( \/ relCall.detected = Version(20, 10) /\ ~relCall.development
             \/ relCall.detected = Version(21, 4) )
              => (relOut.value.build = Blacklisted /\ queries = << >>)
        /\ (relCall.detected = Version(20, 10) /\ relCall.development)
              => Len(queries) > 0

C2_Witness ==
    /\ NextDone
    /\ relCall.detected = Version(20, 10)
    /\ ~relCall.development
    /\ relOut.value.build = Blacklisted
    /\ queries = << >>

\* C3: whenever the table calls for a build check, the query is made exactly once,
\* with the row's next version as its argument, and the returned build is the
\* BuildStatus that query produced.
C3_QueryOnceForNext ==
    (NextDone /\ relCall.detected \in Supported
        /\ QueryDocumented(relCall.detected, relCall.development)) =>
        /\ queries = <<Documented(relCall.detected).next>>
        /\ relOut.value.build = FromResult(catalog[Documented(relCall.detected).next])

C3_Witness ==
    /\ NextDone
    /\ relCall.detected = Version(20, 4)
    /\ ~relCall.development
    /\ queries = <<"20.10">>
    /\ relOut.value.build = FromResult(catalog["20.10"])
    /\ catalog["20.10"] # catalog["20.04"]

Unsupported == Versions \ Supported
UnsupportedDone ==
    /\ relPc # "idle"
    /\ relCall.detected \in Unsupported
    /\ relCall.op = "next" \/ (relCall.op = "current" /\ relCall.version = NoOverride)

\* C4 as stated: for a detected version outside the table, next and current (no
\* override) end in an error result of kind UnsupportedRelease, never in an abort.
C4_UnsupportedIsError ==
    UnsupportedDone =>
        /\ relPc = "returned"
        /\ relOut.outcome = "Err"
        /\ relOut.value = "UnsupportedRelease"

\* C4 as amended: for a detected version outside the table, next and current (no
\* override) panic: nothing is returned to the caller and no build query is made.
C4_UnsupportedPanics ==
    UnsupportedDone =>
        /\ relPc = "panicked"
        /\ relOut.outcome = "panic"
        /\ relOut.value = Panicked.value
        /\ queries = << >>

C4_Witness ==
    /\ UnsupportedDone
    /\ relCall.op = "current"
    /\ relCall.detected = Version(21, 10)
    /\ relPc = "panicked"

(***************************************************************************)
(* Claims about status_code                                                *)
(***************************************************************************)
DocumentedCode(s) ==
    CASE s.kind = "Build" -> s.n
      [] s.kind = "ConnectionIssue" -> -3
      [] s.kind = "ServerStatus" -> -2
      [] s.kind = "InternalIssue" -> -1
      [] s.kind = "Blacklisted" -> -4

\* C5: status_code is exact for every BuildStatus value: Build(n) gives n for every
\* n in 0..65535, ConnectionIssue -3, ServerStatus -2, InternalIssue -1,
\* Blacklisted -4.
C5_StatusCodeExact == stCode.called => stCode.code = DocumentedCode(stIn)

(***************************************************************************)
(* Claims about the recovery upgrade                                       *)
(***************************************************************************)
Pos(name) ==
    IF \E i \in DOMAIN trace : trace[i].step = name
    THEN CHOOSE i \in DOMAIN trace :
            trace[i].step = name /\ \A j \in DOMAIN trace : trace[j].step = name => i <= j
    ELSE 0
Ran(name) == Pos(name) > 0
RanOk(name) == \E i \in DOMAIN trace : trace[i].step = name /\ trace[i].ok
Failed(name) == \E i \in DOMAIN trace : trace[i].step = name /\ ~trace[i].ok
Count(name) == Cardinality({i \in DOMAIN trace : trace[i].step = name})
\* b ran only after a had succeeded
Guards(a, b) == Ran(b) => (RanOk(a) /\ ~Failed(a) /\ Pos(a) < Pos(b))

\* C6 as stated: when the probe finds no qualifying recovery partition, the
\* orchestrator's outcome is RecoveryNotFound, distinct from the Probe error of a
\* failed scan.
C6_NoPartitionIsRecoveryNotFound ==
    (pc = "done" /\ Failed("probe_for") /\ trace[Pos("probe_for")].note = "NotFound")
        => returned.kind = "RecoveryNotFound"

\* C7: in a from-release run, checksum validation starts only after the fetch
\* returned success, the file was flushed and its cursor put back to the start;
\* the ISO is mounted only after that validation succeeded, and a downloaded file
\* is never mounted after a failed fetch, flush, seek or checksum.
C7_ValidateThenMount ==
    /\ Guards("get", "flush") /\ Guards("flush", "seek") /\ Guards("seek", "validate_checksum")
    /\ pc = "dl_validate" => (dl.content \in {"good", "corrupt"} /\ dl.flushed /\ dl.cursor = "start")
    /\ args.source = "from-release" => Guards("validate_checksum", "mount")
    /\ mnt.source = "new.iso" =>
          (RanOk("get") /\ RanOk("flush") /\ RanOk("seek") /\ RanOk("validate_checksum"))
    /\ (mnt.state = "mounted" /\ mnt.source = "new.iso") =>
          /\ dl.validated /\ dl.content = "good" /\ dl.flushed
          /\ ~Failed("get") /\ ~Failed("flush") /\ ~Failed("seek")
          /\ ~Failed("validate_checksum")

C7_Witness ==
    /\ args.source = "from-release"
    /\ mnt.state = "mounted"
    /\ mnt.source = "new.iso"
    /\ RanOk("validate_checksum")
    /\ Pos("validate_checksum") < Pos("mount")

\* C8: fetch_iso's mutation steps run in the order mount, mirror of .disk dists
\* pool, mirror of casper, copy of initrd.gz, copy of vmlinuz.efi; no mirror runs
\* unless the mount succeeded and no payload copy unless both mirrors succeeded.
C8_StepOrder ==
    /\ Guards("mount", "rsync(.disk dists pool)")
    /\ Guards("rsync(.disk dists pool)", "rsync(casper)")
    /\ Guards("rsync(casper)", "cp(initrd.gz)")
    /\ Guards("cp(initrd.gz)", "cp(vmlinuz.efi)")
    /\ Ran("rsync(.disk dists pool)") => mnt.source # "none"
    /\ pc \in {"rsync_main", "rsync_casper", "cp_initrd", "cp_vmlinuz"} => mnt.state = "mounted"
    /\ mnt.state = "mounted" => mnt.flags = "RDONLY"

C8_Witness ==
    /\ pc = "done"
    /\ returned = RecOk
    /\ RanOk("cp(vmlinuz.efi)")
    /\ Pos("mount") < Pos("rsync(.disk dists pool)")
    /\ Pos("rsync(casper)") < Pos("cp(initrd.gz)")

FetchIsoReturned == pc \in {"probe_return", "done"}

\* C9: once the ISO mount is acquired, every exit path of fetch_iso releases the
\* mount exactly once and removes the mount-point directory exactly once, the
\* unmount first and both before fetch_iso returns; if the mount fails the
\* directory is still removed and no unmount is attempted.
C9_MountScope ==
    /\ mnt.unmounts <= 1 /\ mnt.rmdirs <= 1
    /\ mnt.dir = "removed" => mnt.state # "mounted"
    /\ (FetchIsoReturned /\ RanOk("mount")) =>
          /\ mnt.unmounts = 1 /\ mnt.rmdirs = 1
          /\ Count("unmount") = 1 /\ Count("remove(mount dir)") = 1
          /\ Pos("mount") < Pos("unmount")
          /\ Pos("unmount") < Pos("remove(mount dir)")
          /\ mnt.state = "unmounted" /\ mnt.dir = "removed"
    /\ (FetchIsoReturned /\ Failed("mount")) =>
          /\ mnt.unmounts = 0 /\ Count("unmount") = 0
          /\ mnt.rmdirs = 1 /\ Count("remove(mount dir)") = 1
          /\ mnt.dir = "removed"

C9_Witness ==
    /\ pc = "probe_return"
    /\ RanOk("mount")
    /\ Failed("rsync(casper)")
    /\ mnt.unmounts = 1
    /\ mnt.rmdirs = 1

\* the steps of an upgrade run, as against the drops of scope exit
Cleanup == {"unmount", "remove(mount dir)", "remove(new.iso dir)"}
Unwinding == pc \in {"drop", "from_remote_unwind", "probe_return", "done"}
C10_FirstFailureEnds ==
    /\ \A i, j \in DOMAIN trace :
          /\ (i < j /\ ~trace[i].ok) => trace[j].step \in Cleanup
          /\ (i # j) => trace[i].step # trace[j].step
    /\ (\E i \in DOMAIN trace : ~trace[i].ok) => Unwinding
    /\ (pc = "done" /\ \E i \in DOMAIN trace : ~trace[i].ok) => (~returned.ok /\ ~printed)
C10_NoRollback == Unwinding => (rec' = rec /\ efi' = efi)

\* C10: the first failing step of an upgrade run ends the run: no later step is
\* executed, no step is executed twice, the error is returned to the caller, and
\* what earlier steps wrote to the destination is left as it is.
C10_FailFast == []C10_FirstFailureEnds /\ [][C10_NoRollback]_vars

C10_Witness ==
    /\ pc = "done"
    /\ Failed("rsync(casper)")
    /\ returned = Err("Io")
    /\ rec.trees["dists"]["data"] = "new"
    /\ rec.trees["dists"]["stale"] = "absent"
    /\ efi["initrd.gz"] = "old"

(***************************************************************************)
(* Further claims about release resolution and status codes                *)
(***************************************************************************)
\* C17 as stated: for each of the five supported versions, the release string
\* current(None) maps the detected version to, and looks the build up for, is the
\* canonical string of that release: the `current` field next() reports for it.
C17_CurrentCanonical ==
    (CurrentDone /\ relCall.version = NoOverride /\ relCall.detected \in Supported) =>
        /\ queries = <<Documented(relCall.detected).current>>
        /\ queries = <<next_(relCall.detected, FALSE).value.current>>
        /\ relOut.outcome = "Ok" => relOut.value[1] = Documented(relCall.detected).current

\* C20 as stated: status_code() >= 0 exactly when is_ok() holds, so no Build(n)
\* yields a negative code, in particular none of the reserved -1, -2, -3, -4.
C20_CodeSignAgreesWithIsOk ==
    stCode.called =>
        /\ (stCode.code >= 0) <=> is_ok(stIn)
        /\ is_ok(stIn) => stCode.code \notin {-1, -2, -3, -4}

(***************************************************************************)
(* Claims about BuildStatus equality and conversion                        *)
(***************************************************************************)
\* C14: BuildStatus equality is variant-kind equality with Build compared by
\* number: same non-Build variants are equal whatever their causes, Build(a) =
\* Build(b) iff a = b, different variants are never equal; the relation is
\* reflexive, symmetric and transitive.
C14_EqByKind ==
    eqOut.called =>
        /\ (eqIn[1].kind = eqIn[2].kind /\ eqIn[1].kind # "Build") => eqOut.ab
        /\ (eqIn[1].kind = "Build" /\ eqIn[2].kind = "Build") => (eqOut.ab <=> eqIn[1].n = eqIn[2].n)
        /\ eqIn[1].kind # eqIn[2].kind => ~eqOut.ab
        /\ eqOut.aa
        /\ eqOut.ab <=> eqOut.ba
        /\ (eqOut.ab /\ eqOut.bc) => eqOut.ac

C14_Witness ==
    /\ eqOut.called
    /\ eqIn[1] = ConnectionIssue(1)
    /\ eqIn[2] = ConnectionIssue(MaxCause)
    /\ eqIn[3] = Build(1)
    /\ eqOut.ab /\ ~eqOut.bc

\* C15: the conversion of a build-existence query result is by cause and total:
\* ApiError::Get gives ConnectionIssue, ApiError::Status gives ServerStatus, every
\* other ApiError gives InternalIssue, Ok(n) gives Build(n) with the same n; it
\* never yields Blacklisted.
C15_FromByCause ==
    cvOut.called =>
        /\ cvOut.value.kind \in {"ConnectionIssue", "ServerStatus", "InternalIssue", "Build"}
        /\ cvOut.value.kind = "ConnectionIssue" <=> (~cvIn.ok /\ cvIn.err = "Get")
        /\ cvOut.value.kind = "ServerStatus" <=> (~cvIn.ok /\ cvIn.err = "Status")
        /\ cvOut.value.kind = "InternalIssue" <=> (~cvIn.ok /\ cvIn.err \notin {"Get", "Status"})
        /\ cvOut.value.kind = "Build" <=> cvIn.ok
        /\ cvIn.ok => cvOut.value.n = cvIn.n
        /\ cvOut.value # Blacklisted

C15_Witness ==
    /\ cvOut.called
    /\ cvIn = ApiErr("Get", 1)
    /\ cvOut.value.kind = "ConnectionIssue"

\* the steps taken so far in this run
Steps == {trace[i].step : i \in DOMAIN trace}
\* this run has touched nothing: no UUID read, no ISO, no temporary directory, no
\* mount, and both partitions as the run found them
Untouched ==
    /\ recovery_uuid = ""
    /\ isoTemp = "none"
    /\ dl = NoFile
    /\ iso = "none"
    /\ mnt = NoMount
    /\ rec = runs.rec
    /\ efi = runs.efi
\* the run is ending with error r and no success message
EndsWith(r) == ret = r /\ ~printed /\ (pc = "done" => returned = r)

\* C12: with the recovery path present and /boot/efi/EFI/ missing the run fails
\* with EfiNotFound, and with the recovery path missing it fails with
\* RecoveryNotFound before the EFI check; in both cases before any UUID lookup,
\* version detection, catalog query, download, temporary directory, mount or
\* write to either partition.
C12_PathChecksFirst ==
    /\ Failed("efi_path.exists") =>
          /\ RanOk("recovery_path.exists")
          /\ Pos("recovery_path.exists") < Pos("efi_path.exists")
          /\ Steps = {"probe_for", "recovery_path.exists", "efi_path.exists"}
          /\ Untouched
          /\ EndsWith(Err("EfiNotFound"))
    /\ Failed("recovery_path.exists") =>
          /\ Steps = {"probe_for", "recovery_path.exists"}
          /\ Untouched
          /\ EndsWith(Err("RecoveryNotFound"))
    /\ Ran("findmnt_uuid") => (RanOk("recovery_path.exists") /\ RanOk("efi_path.exists"))
C12_Witness ==
    /\ pc = "done"
    /\ Failed("efi_path.exists")
    /\ RanOk("recovery_path.exists")
    /\ returned = Err("EfiNotFound")

\* C13: in a from-release run a failure inside from_remote (temporary directory,
\* open, fetch, flush, seek, checksum) is returned as Download around TempDir, Io,
\* Fetch or Checksum; a catalog failure is returned as ApiError and a detection
\* failure as ReleaseVersion or ReleaseArch, not wrapped; Fetch and Checksum are
\* never returned bare.
RemoteKind ==
    [s \in {"tempdir(new.iso)", "open", "get", "flush", "seek", "validate_checksum"} |->
        CASE s = "tempdir(new.iso)" -> "TempDir"
          [] s = "get" -> "Fetch"
          [] s = "validate_checksum" -> "Checksum"
          [] OTHER -> "Io"]
ReleaseKind ==
    [s \in {"detect_version", "detect_arch", "get_release"} |->
        CASE s = "detect_version" -> "ReleaseVersion"
          [] s = "detect_arch" -> "ReleaseArch"
          [] OTHER -> "ApiError"]
C13_ErrorKindNamesStage ==
    /\ \A s \in DOMAIN RemoteKind :
          Failed(s) => (ret = Download(Err(RemoteKind[s]))
                        /\ (pc = "done" => returned = Download(Err(RemoteKind[s]))))
    /\ \A s \in DOMAIN ReleaseKind :
          Failed(s) => (ret = Err(ReleaseKind[s])
                        /\ (pc = "done" => returned = Err(ReleaseKind[s])))
    /\ ret.kind \notin {"Fetch", "Checksum"}
    /\ returned.kind \notin {"Fetch", "Checksum"}
    /\ (pc = "done" /\ returned.kind = "Download") =>
          (\E s \in DOMAIN RemoteKind : Failed(s) /\ returned.inner = RemoteKind[s])
C13_Witness ==
    /\ pc = "done"
    /\ Failed("validate_checksum")
    /\ returned = Download(Err("Checksum"))

\* C16: recovery() with default-boot ends in the "not implemented" failure: it
\* never returns Ok, never prints the success message, and starts no probe,
\* download, mount or write.
C16_DefaultBootNotImplemented ==
    args.command = "default-boot" =>
        /\ pc \in {"recovery", "done"}
        /\ pc = "done" => returned = NotImplemented
        /\ ~returned.ok
        /\ ret = Running
        /\ ~printed
        /\ trace = << >>
        /\ Untouched
C16_Witness ==
    /\ args.command = "default-boot"
    /\ pc = "done"
    /\ returned = NotImplemented

\* C19: the temporary directory holding new.iso exists from its creation, before
\* the download, until after the ISO is unmounted: it is not removed while the
\* ISO is mounted or a mirror or copy step is pending, and it is removed on every
\* exit path before the run returns; the ISO of a from-file run is only read.
Syncing == pc \in {"recovery_str", "rsync_main", "rsync_casper", "cp_initrd", "cp_vmlinuz"}
C19_TempIsoHeld ==
    /\ RanOk("tempdir(new.iso)") =>
          /\ isoTemp \in {"local", "held", "removed"}
          /\ (isoTemp = "removed") = Ran("remove(new.iso dir)")
          /\ Count("remove(new.iso dir)") <= 1
          /\ FetchIsoReturned => isoTemp = "removed"
    /\ ~RanOk("tempdir(new.iso)") => (isoTemp = "none" /\ ~Ran("remove(new.iso dir)"))
    /\ (iso = "new.iso" /\ (mnt.state = "mounted" \/ Syncing)) =>
          (isoTemp = "held" /\ dl.exists)
    /\ (Ran("remove(new.iso dir)") /\ RanOk("mount")) =>
          (Ran("unmount") /\ Pos("unmount") < Pos("remove(new.iso dir)"))
    /\ args.source = "from-file" =>
          /\ isoTemp = "none"
          /\ dl = NoFile
          /\ iso \in {"none", "user"}
          /\ mnt.state = "mounted" => (mnt.source = "user" /\ mnt.flags = "RDONLY")
C19_UserIsoKept == userIso' = userIso
C19_IsoLifetime == []C19_TempIsoHeld /\ [][C19_UserIsoKept]_vars
C19_Witness ==
    /\ pc = "done"
    /\ iso = "new.iso"
    /\ RanOk("mount")
    /\ Failed("rsync(casper)")
    /\ Pos("unmount") < Pos("remove(new.iso dir)")
    /\ isoTemp = "removed"

\* C18: no step of an upgrade, in a run that succeeds or fails, removes or changes
\* recovery.conf or a root entry other than .disk, dists, pool and casper-<UUID>:
\* the first mirror changes files only inside .disk, dists and pool, the second
\* only inside casper-<UUID>, and a file is deleted only where the ISO's tree
\* does not hold it.
IsoSource(t) == IF t \in MainTrees THEN t ELSE "casper"
C18_RootEntries ==
    /\ rec.conf = "recovery.conf"
    /\ rec.other = "present"
    /\ DOMAIN rec.trees = MainTrees \cup {"casper-" \o partUuid}
C18_MirrorsStayInside ==
    /\ rec'.conf = rec.conf
    /\ rec'.other = rec.other
    /\ DOMAIN rec'.trees = DOMAIN rec.trees
    /\ \A t \in DOMAIN rec.trees :
          /\ rec'.trees[t] # rec.trees[t] =>
                IF t \in MainTrees THEN pc = "rsync_main"
                                   ELSE pc = "rsync_casper" /\ t = casper
          /\ \A f \in DOMAIN rec.trees[t] :
                (rec.trees[t][f] # "absent" /\ rec'.trees[t][f] = "absent") =>
                    Image[IsoSource(t)][f] = "absent"
C18_RootKept == []C18_RootEntries /\ [][C18_MirrorsStayInside]_vars
C18_Witness ==
    /\ pc = "done"
    /\ Failed("rsync(casper)")
    /\ rec.trees[".disk"]["stale"] = "absent"
    /\ runs.rec.trees[".disk"]["stale"] = "old"
    /\ rec.trees[casper]["stale"] = "absent"
    /\ rec.trees[casper]["initrd.gz"] = "old"
    /\ rec.conf = "recovery.conf"

\* C11: whatever the four trees and the EFI payloads held before, mixtures left by
\* an interrupted run included, a run that returns Ok leaves .disk, dists, pool
\* and casper-<UUID> equal to the ISO's trees, files of the destination alone
\* removed, and the two EFI payloads equal to casper-<UUID>/initrd.gz and
\* vmlinuz.efi; a successful run after a successful run changes nothing.
Converged ==
    /\ \A t \in DOMAIN rec.trees : rec.trees[t] = Image[IsoSource(t)]
    /\ \A f \in DOMAIN efi : efi[f] = rec.trees["casper-" \o partUuid][f]
C11_ConvergesByRerun ==
    (pc = "done" /\ returned = RecOk) =>
        /\ Converged
        /\ runs.after_ok => (rec = runs.rec /\ efi = runs.efi)
C11_Witness ==
    /\ pc = "done"
    /\ returned = RecOk
    /\ runs.n = 2
    /\ ~runs.after_ok
    /\ runs.rec.trees[".disk"] = Image[".disk"]
    /\ runs.rec.trees["pool"]["data"] = "old"
    /\ runs.rec.trees["pool"]["stale"] = "absent"
    /\ runs.efi["initrd.gz"] = "old"
    /\ Converged

====
